---- MODULE Spec2Model ----
(***************************************************************************)
(* HareDB (servers/bun): an engine object on the caller's thread holding   *)
(* the in-memory Index `kv`, a secret key in a sodium secure buffer, and a *)
(* worker thread that owns the sqlite file after startup.  One path, one   *)
(* process at a time; a process is started with `new HareDB(path, key)`    *)
(* and ended by the 'exit' event.                                          *)
(***************************************************************************)
EXTENDS Integers, Sequences, FiniteSets, TLC

\* ---------------------------------------------------------------- bounds
MaxRuns  == 2   \* processes started, one after the other, on the same path
MaxPosts == 3   \* messages one engine posts to its worker, STARTUP included
MaxCloses == 1  \* explicit close() calls on one engine (the exit hook is extra)

\* --------------------------------------------------------- program values
\* crypto_secretbox_NONCEBYTES zero bytes: Buffer.alloc(...) is zero-filled
ZeroNonce == 0

\* A JavaScript value.  A string is either a caller's text (key = "") or the
\* JSON spelling of a secretbox: the bytes that seal `text` under `key` with
\* `nonce`.  The other types carry no payload.
JSValue(t, k, n, s) == [type |-> t, key |-> k, nonce |-> n, text |-> s]
Str(s)        == JSValue("string", "", ZeroNonce, s)
Undefined     == JSValue("undefined", "", ZeroNonce, "")
Null          == JSValue("null", "", ZeroNonce, "")
True          == JSValue("boolean", "", ZeroNonce, "true")
False         == JSValue("boolean", "", ZeroNonce, "false")
Bool(b)       == IF b THEN True ELSE False
NativeFn      == JSValue("function", "", ZeroNonce, "")
ProtoObject   == JSValue("object", "", ZeroNonce, "")
Thrown(msg)   == JSValue("error", "", ZeroNonce, msg)
VoidRet       == Undefined

\* the caller's inputs.  The key strings are the two kinds that an object
\* literal treats differently from a map (see ObjectPrototype below); sealed
\* under a key they are ordinary property names like any other, and so is
\* "toString" in an insecure engine once it has been set.
KeyNames   == {"toString", "__proto__"}
Values     == {"", "x"}
SecretKeys == {"K1", "K2"}
NoSecret   == ""        \* secretKey omitted: `if (secretKey)` is false
ZeroedKey  == "0"       \* the buffer after sodium_munlock: memzero'd
NoBuffer   == "-"       \* this.sk never assigned

\* ToBoolean: what `if (value)` and `value && ...` test
ToBoolean(v) ==
    CASE v.type = "string"   -> ~(v.key = "" /\ v.text = "")
      [] v.type = "function" -> TRUE
      [] v.type = "object"   -> TRUE
      [] v.type = "boolean"  -> v = True
      [] OTHER               -> FALSE

\* ---------------------------------------------- the object literal `{}`
\* this.kv = {} is an ordinary object: its prototype is Object.prototype,
\* whose members are found by `in` and by a property read.  Of the caller's
\* key strings, these name a member of Object.prototype:
ObjectPrototype == {Str("toString"), Str("__proto__")}

\* Of those, the accessor: reading it gives the prototype object, and
\* assigning a string to it is ignored by its setter, so no own property
\* is made.
ProtoAccessor == Str("__proto__")

\* `key in obj`
HasProperty(obj, key) == key \in DOMAIN obj \/ key \in ObjectPrototype

\* `obj[key]`
GetProperty(obj, key) ==
    IF key \in DOMAIN obj THEN obj[key]
    ELSE IF key = ProtoAccessor THEN ProtoObject
    ELSE IF key \in ObjectPrototype THEN NativeFn
    ELSE Undefined

\* `obj[key] = value`, value a string
PutProperty(obj, key, value) ==
    IF key = ProtoAccessor THEN obj
    ELSE [x \in DOMAIN obj \cup {key} |-> IF x = key THEN value ELSE obj[x]]

\* `delete obj[key]`
DeleteProperty(obj, key) == [x \in DOMAIN obj \ {key} |-> obj[x]]

EmptyObject == [x \in {} |-> Undefined]

\* ------------------------------------------------------------ sqlite rows
\* Variant: INSERT OR IGNORE, which keeps the row a key already has
Upsert_keepsOld(rows, key, value) ==
    [x \in DOMAIN rows \cup {key} |->
        IF x \in DOMAIN rows THEN rows[x] ELSE value]

\* INSERT OR REPLACE INTO key_value
Upsert(rows, key, value) ==
    [x \in DOMAIN rows \cup {key} |-> IF x = key THEN value ELSE rows[x]]

\* DELETE FROM key_value WHERE key = ?
DeleteRow(rows, key) == [x \in DOMAIN rows \ {key} |-> rows[x]]

\* ----------------------------------------------------------------- state
VARIABLES
    meta,      \* store: meta table, [secure, test]; secure = "none" before creation
    table,     \* store: key_value table, key -> value
    phase,     \* "none" no process | "ready" constructed | "failed" constructor threw
    err,       \* the error the constructor threw, or ""
    secure,    \* this._secure: "undefined" | "true" | "false"
    sk,        \* content of this.sk
    prot,      \* protection of this.sk: "None" | "NoAccess" | "ReadOnly" | "ReadWrite"
    kv,        \* this.kv, own properties
    worker,    \* this.worker is defined
    handle,    \* the constructor's own Database: "none" | "open" | "closed"
    queue,     \* the worker's message queue
    wdb,       \* the worker's `db`: "unset" | "open" | "closed"
    wlive,     \* the worker thread is running
    ret,       \* the last call of the public interface and what it returned
    posted,    \* history: every message this engine posted, in order
    applied,   \* history: every SET/DEL the worker ran against the table
    closes,    \* history: close() calls on this engine
    exiting,   \* the 'exit' event has fired
    runs,      \* history: processes started
    written,   \* history: key name -> value of the last set, dropped by del
    removed,   \* history: key names a del took out, until set again
    restored   \* history: what a drained earlier run left for this one

vars == <<meta, table, phase, err, secure, sk, prot, kv, worker, handle, queue,
          wdb, wlive, ret, posted, applied, closes, exiting, runs, written,
          removed, restored>>

storeVars  == <<meta, table>>
engineVars == <<phase, err, secure, sk, prot, kv, worker, handle>>
workerVars == <<queue, wdb, wlive>>

EmptyMap == [x \in {} |-> ""]
NoMeta   == [secure |-> "none", test |-> Undefined]
Ret(op, arg, val) == [op |-> op, arg |-> arg, val |-> val]

Init ==
    /\ meta = NoMeta
    /\ table = EmptyObject
    /\ phase = "none"
    /\ err = ""
    /\ secure = "undefined"
    /\ sk = NoBuffer
    /\ prot = "None"
    /\ kv = EmptyObject
    /\ worker = FALSE
    /\ handle = "none"
    /\ queue = <<>>
    /\ wdb = "unset"
    /\ wlive = FALSE
    /\ ret = Ret("none", "", Undefined)
    /\ posted = <<>>
    /\ applied = <<>>
    /\ closes = 0
    /\ exiting = FALSE
    /\ runs = 0
    /\ written = EmptyMap
    /\ removed = {}
    /\ restored = EmptyMap

\* ----------------------------------------------------------- sodium-native
\* the page protection of the secure buffer after each call
sodium_mprotect_noaccess(p)  == "NoAccess"
sodium_mprotect_readonly(p)  == "ReadOnly"
sodium_mprotect_readwrite(p) == "ReadWrite"

\* Variant: the region is unlocked with its content left in place
sodium_munlock_unlockOnly(buf) == buf

\* sodium_munlock zeroes the region before unlocking it
sodium_munlock(buf) == ZeroedKey

\* crypto_secretbox_easy writes the box into its first argument; the box is a
\* function of message, nonce and key, and nothing else
crypto_secretbox_easy(message, nonce, key) ==
    JSValue("string", key, nonce, message.text)

\* crypto_secretbox_open_easy: true exactly when the tag verifies, which takes
\* the key and the nonce the box was sealed with
crypto_secretbox_open_easy(box, nonce, key) ==
    box.key = key /\ box.nonce = nonce

\* HareDB.encrypt(value), run with key buffer content k in protection p.
\* out: the returned string; prot: the protection the call leaves behind.
encrypt(value, k, p) ==
    LET nonce == ZeroNonce
        p1    == sodium_mprotect_readonly(p)
        box   == crypto_secretbox_easy(value, nonce, k)
        p2    == sodium_mprotect_noaccess(p1)
    IN  [out |-> box, prot |-> p2]

\* The slip a rewrite of decrypt could make: throwing before the key is
\* locked away again.
decrypt_throwsUnlocked(value, k, p) ==
    IF value.type # "string" \/ value.key = ""
    THEN [ok |-> FALSE, out |-> Thrown("SyntaxError"), prot |-> p]
    ELSE LET p1      == sodium_mprotect_readonly(p)
             success == crypto_secretbox_open_easy(value, ZeroNonce, k)
         IN  IF success
             THEN [ok |-> TRUE, out |-> Str(value.text),
                   prot |-> sodium_mprotect_noaccess(p1)]
             ELSE [ok |-> FALSE, out |-> Thrown("Unable to decrypt a value"),
                   prot |-> p1]

\* HareDB.decrypt(value).  ok: it returned (FALSE: it threw `out`).
decrypt(value, k, p) ==
    IF value.type # "string" \/ value.key = ""
    THEN \* JSON.parse / Buffer.alloc throw before the key is touched
         [ok |-> FALSE, out |-> Thrown("SyntaxError"), prot |-> p]
    ELSE LET p1      == sodium_mprotect_readonly(p)
             success == crypto_secretbox_open_easy(value, ZeroNonce, k)
             p2      == sodium_mprotect_noaccess(p1)
         IN  IF success
             THEN [ok |-> TRUE, out |-> Str(value.text), prot |-> p2]
             ELSE [ok |-> FALSE, out |-> Thrown("Unable to decrypt a value"),
                   prot |-> p2]

\* ------------------------------------------------------------- messages
Msg(action, key, value) == [action |-> action, key |-> key, value |-> value]
STARTUP  == Msg("STARTUP", Undefined, Undefined)
SHUTDOWN == Msg("SHUTDOWN", Undefined, Undefined)

\* ------------------------------------------------- the public interface
\* Each is the method run on the current engine state: what it returns
\* (val), what it leaves in this.kv and in the key buffer's protection, and
\* the messages it posts.

\* Variant: only the value is sealed, the key is filed as given
set_plainKey(key, value) ==
    LET ev == IF secure = "true" THEN encrypt(value, sk, prot)
              ELSE [out |-> value, prot |-> prot]
        exists == HasProperty(kv, key)
    IN  [val  |-> Bool(exists),
         kv   |-> PutProperty(kv, key, ev.out),
         prot |-> ev.prot,
         post |-> <<Msg("SET", key, ev.out)>>]

set(key, value) ==
    LET ek == IF secure = "true" THEN encrypt(key, sk, prot)
              ELSE [out |-> key, prot |-> prot]
        ev == IF secure = "true" THEN encrypt(value, sk, ek.prot)
              ELSE [out |-> value, prot |-> ek.prot]
        exists == HasProperty(kv, ek.out)
    IN  [val  |-> Bool(exists),
         kv   |-> PutProperty(kv, ek.out, ev.out),
         prot |-> ev.prot,
         post |-> <<Msg("SET", ek.out, ev.out)>>]

\* Variant: a key the Index lacks is looked up in the file
get_readsThrough(key) ==
    LET ek == IF secure = "true" THEN encrypt(key, sk, prot)
              ELSE [out |-> key, prot |-> prot]
        value == IF ek.out \in DOMAIN kv THEN kv[ek.out]
                 ELSE IF ek.out \in DOMAIN table THEN table[ek.out]
                 ELSE Undefined
    IN  IF ToBoolean(value) /\ secure = "true"
        THEN LET d == decrypt(value, sk, ek.prot)
             IN  [val |-> d.out, prot |-> d.prot]
        ELSE IF ToBoolean(value)
        THEN [val |-> value, prot |-> ek.prot]
        ELSE [val |-> Null, prot |-> ek.prot]

get(key) ==
    LET ek == IF secure = "true" THEN encrypt(key, sk, prot)
              ELSE [out |-> key, prot |-> prot]
        value == GetProperty(kv, ek.out)
    IN  IF ToBoolean(value) /\ secure = "true"
        THEN LET d == decrypt(value, sk, ek.prot)
             IN  [val |-> d.out, prot |-> d.prot]
        ELSE IF ToBoolean(value)
        THEN [val |-> value, prot |-> ek.prot]
        ELSE [val |-> Null, prot |-> ek.prot]

del(key) ==
    LET ek == IF secure = "true" THEN encrypt(key, sk, prot)
              ELSE [out |-> key, prot |-> prot]
        exists == HasProperty(kv, ek.out)
    IN  [val  |-> Bool(exists),
         kv   |-> IF exists THEN DeleteProperty(kv, ek.out) ELSE kv,
         prot |-> ek.prot,
         post |-> IF exists THEN <<Msg("DEL", ek.out, Undefined)>> ELSE <<>>]

\* Variant: SHUTDOWN posted without looking at this.worker
close_unguarded ==
    [post |-> <<SHUTDOWN>>,
     prot |-> IF secure = "true" THEN sodium_mprotect_readwrite(prot) ELSE prot,
     sk   |-> IF secure = "true" THEN sodium_munlock(sk) ELSE sk]

close ==
    [post |-> IF worker THEN <<SHUTDOWN>> ELSE <<>>,
     prot |-> IF secure = "true" THEN sodium_mprotect_readwrite(prot) ELSE prot,
     sk   |-> IF secure = "true" THEN sodium_munlock(sk) ELSE sk]

\* ---------------------------------------------------------- constructor
\* `${this.secure}` for the mode a secretKey argument selects
modeOf(secretKey) == IF secretKey # NoSecret THEN "true" ELSE "false"

\* Variant: INSERT OR REPLACE, which rewrites the rows on every start
insertMeta_replace(m, mode) == [m EXCEPT !.secure = mode]

\* INSERT OR IGNORE INTO meta ...: the rows are written when the file is new
\* and left alone when they exist
insertMeta(m, mode) == IF m.secure = "none" THEN [m EXCEPT !.secure = mode] ELSE m

\* INSERT OR IGNORE INTO meta ('secure_test_string', encrypt('ENCRYPTED TEXT'))
insertTest(m, box) == IF m.test = Undefined THEN [m EXCEPT !.test = box] ELSE m

\* Variant: the check made in one direction only, a missing key on a secure file
mismatch_missingKeyOnly(m, mode) == mode = "false" /\ m.secure = "true"

\* this.secure !== (SELECT value FROM meta WHERE key = 'secure') === 'true'
mismatch(m, mode) == (mode = "true") # (m.secure = "true")

\* SELECT * FROM key_value, each row assigned into this.kv
RECURSIVE loadRows(_, _)
loadRows(rows, obj) ==
    IF DOMAIN rows = {} THEN obj
    ELSE LET key == CHOOSE x \in DOMAIN rows : TRUE
         IN  loadRows(DeleteRow(rows, key), PutProperty(obj, key, rows[key]))

\* the protected buffer after lines 54-58: the key copied in, access revoked
securedProt == sodium_mprotect_noaccess("ReadWrite")

\* Variant: the test string is written but the stored one is never opened
testRound_unverified(m, secretKey) ==
    LET e  == encrypt(Str("ENCRYPTED TEXT"), secretKey, securedProt)
        m2 == insertTest(m, e.out)
    IN  [meta |-> m2, ok |-> TRUE, prot |-> e.prot]

\* what the test-string round trip of lines 100-102 does under secretKey
testRound(m, secretKey) ==
    LET e  == encrypt(Str("ENCRYPTED TEXT"), secretKey, securedProt)
        m2 == insertTest(m, e.out)
        d  == decrypt(m2.test, secretKey, e.prot)
    IN  [meta |-> m2, ok |-> d.ok, prot |-> d.prot]

\* a process starts: nothing of an earlier engine is left but the file
CanStart == phase = "none" /\ runs < MaxRuns

started ==
    /\ runs' = runs + 1
    /\ exiting' = FALSE
    /\ applied' = <<>>
    /\ written' = EmptyMap
    /\ removed' = {}
    /\ UNCHANGED restored

\* !this.sk.secure: close() finds neither a worker nor this.secure, and the
\* constructor throws before the file is opened
ConstructFatal(secretKey) ==
    /\ CanStart
    /\ secretKey # NoSecret
    /\ phase' = "failed"
    /\ err' = "FatalSecurityError"
    /\ secure' = "undefined"
    /\ sk' = secretKey
    /\ prot' = securedProt
    /\ kv' = EmptyObject
    /\ worker' = FALSE
    /\ handle' = "none"
    /\ queue' = <<>> /\ posted' = <<>>
    /\ wdb' = "unset" /\ wlive' = FALSE
    /\ closes' = 1
    /\ ret' = Ret("new", secretKey, Thrown("Failed to secure memory"))
    /\ started
    /\ UNCHANGED storeVars

\* the recorded mode and the requested one differ: throw at line 93
ConstructMismatch(secretKey) ==
    LET mode == modeOf(secretKey)
        m1   == insertMeta(meta, mode)
    IN  /\ CanStart
        /\ mismatch(m1, mode)
        /\ phase' = "failed"
        /\ err' = "ConfigurationError"
        /\ secure' = mode
        /\ sk' = IF secretKey # NoSecret THEN secretKey ELSE NoBuffer
        /\ prot' = IF secretKey # NoSecret THEN securedProt ELSE "None"
        /\ kv' = EmptyObject
        /\ worker' = FALSE
        /\ handle' = "open"
        /\ meta' = m1
        /\ queue' = <<>> /\ posted' = <<>>
        /\ wdb' = "unset" /\ wlive' = FALSE
        /\ closes' = 0
        /\ ret' = Ret("new", secretKey, Thrown("Configuration error"))
        /\ started
        /\ UNCHANGED table

\* the stored test string does not open under this key: throw at line 104
ConstructWrongKey(secretKey) ==
    LET mode == modeOf(secretKey)
        m1   == insertMeta(meta, mode)
        t    == testRound(m1, secretKey)
    IN  /\ CanStart
        /\ secretKey # NoSecret
        /\ ~mismatch(m1, mode)
        /\ ~t.ok
        /\ phase' = "failed"
        /\ err' = "WrongKeyError"
        /\ secure' = mode
        /\ sk' = secretKey
        /\ prot' = t.prot
        /\ kv' = EmptyObject
        /\ worker' = FALSE
        /\ handle' = "open"
        /\ meta' = t.meta
        /\ queue' = <<>> /\ posted' = <<>>
        /\ wdb' = "unset" /\ wlive' = FALSE
        /\ closes' = 0
        /\ ret' = Ret("new", secretKey, Thrown("Decryption error"))
        /\ started
        /\ UNCHANGED table

\* Variant: the constructor's Database is left as it is
db_close_skipped(h) == h

\* db.close(false) on the constructor's own Database
db_close(h) == "closed"

\* the constructor returns: rows loaded, own handle closed, worker started
ConstructReady(secretKey) ==
    LET mode == modeOf(secretKey)
        m1   == insertMeta(meta, mode)
        t    == IF secretKey # NoSecret THEN testRound(m1, secretKey)
                ELSE [meta |-> m1, ok |-> TRUE, prot |-> "None"]
    IN  /\ CanStart
        /\ ~mismatch(m1, mode)
        /\ t.ok
        /\ phase' = "ready"
        /\ err' = ""
        /\ secure' = mode
        /\ sk' = IF secretKey # NoSecret THEN secretKey ELSE NoBuffer
        /\ prot' = t.prot
        /\ kv' = loadRows(table, EmptyObject)
        /\ worker' = TRUE
        /\ handle' = db_close("open")
        /\ meta' = t.meta
        /\ queue' = <<STARTUP>> /\ posted' = <<STARTUP>>
        /\ wdb' = "unset" /\ wlive' = TRUE
        /\ closes' = 0
        /\ ret' = Ret("new", secretKey, Undefined)
        /\ started
        /\ UNCHANGED table

\* new HareDB(dbPath, secretKey); lockOk is whether sodium could secure the
\* key buffer (this.sk.secure)
Construct(secretKey, lockOk) ==
    IF secretKey # NoSecret /\ ~lockOk
    THEN ConstructFatal(secretKey)
    ELSE \/ ConstructMismatch(secretKey)
         \/ ConstructWrongKey(secretKey)
         \/ ConstructReady(secretKey)

\* ------------------------------------------------------- engine actions
\* the caller holds an engine and the process is not exiting
Callable == phase = "ready" /\ ~exiting

Forget(map, k) == [x \in DOMAIN map \ {k} |-> map[x]]
Record(map, k, v) == [x \in DOMAIN map \cup {k} |-> IF x = k THEN v ELSE map[x]]

Set(k, v) ==
    LET r == set(Str(k), Str(v))
    IN  /\ Callable
        /\ Len(posted) < MaxPosts
        /\ kv' = r.kv
        /\ prot' = r.prot
        /\ queue' = queue \o r.post
        /\ posted' = posted \o r.post
        /\ ret' = Ret("set", k, r.val)
        /\ written' = IF closes = 0 THEN Record(written, k, v) ELSE written
        /\ removed' = IF closes = 0 THEN removed \ {k} ELSE removed
        /\ restored' = IF closes = 0 THEN Forget(restored, k) ELSE restored
        /\ UNCHANGED <<storeVars, phase, err, secure, sk, worker, handle, wdb,
                       wlive, applied, closes, exiting, runs>>

Get(k) ==
    LET r == get(Str(k))
    IN  /\ Callable
        /\ prot' = r.prot
        /\ ret' = Ret("get", k, r.val)
        /\ UNCHANGED <<storeVars, phase, err, secure, sk, kv, worker, handle,
                       workerVars, posted, applied, closes, exiting, runs,
                       written, removed, restored>>

Del(k) ==
    LET r == del(Str(k))
    IN  /\ Callable
        /\ Len(posted) < MaxPosts
        /\ kv' = r.kv
        /\ prot' = r.prot
        /\ queue' = queue \o r.post
        /\ posted' = posted \o r.post
        /\ ret' = Ret("del", k, r.val)
        /\ written' = IF closes = 0 THEN Forget(written, k) ELSE written
        /\ removed' = IF closes = 0 /\ Str(k) \in DOMAIN r.kv THEN removed
                      ELSE IF closes = 0 /\ r.kv # kv THEN removed \cup {k}
                      ELSE removed
        /\ restored' = IF closes = 0 THEN Forget(restored, k) ELSE restored
        /\ UNCHANGED <<storeVars, phase, err, secure, sk, worker, handle, wdb,
                       wlive, applied, closes, exiting, runs>>

\* what a call of close() does to the engine, whoever makes it
closing ==
    LET r == close
    IN  /\ queue' = queue \o r.post
        /\ posted' = posted \o r.post
        /\ prot' = r.prot
        /\ sk' = r.sk
        /\ closes' = closes + 1
        /\ ret' = Ret("close", "", VoidRet)
        /\ UNCHANGED <<storeVars, phase, err, secure, kv, worker, handle, wdb,
                       wlive, applied, runs, written, removed, restored>>

\* db.close() by the owner of the engine (index.ts: the SIGINT handler)
Close ==
    /\ Callable
    /\ closes < MaxCloses
    /\ closing
    /\ UNCHANGED exiting

\* process.on('exit', () => this.close()), registered first thing in the
\* constructor, so it runs for a failed construction as well
ExitHook ==
    /\ phase \in {"ready", "failed"}
    /\ ~exiting
    /\ closing
    /\ exiting' = TRUE

\* the worker handled SHUTDOWN, and with it everything posted before
drained == wdb = "closed"

\* the process is gone, the worker thread with it; the file stays
ProcessEnd ==
    /\ exiting
    /\ phase' = "none"
    /\ err' = ""
    /\ secure' = "undefined"
    /\ sk' = NoBuffer
    /\ prot' = "None"
    /\ kv' = EmptyObject
    /\ worker' = FALSE
    /\ handle' = "none"
    /\ queue' = <<>>
    /\ wdb' = "unset"
    /\ wlive' = FALSE
    /\ ret' = Ret("none", "", Undefined)
    /\ posted' = <<>>
    /\ applied' = <<>>
    /\ closes' = 0
    /\ written' = EmptyMap
    /\ removed' = {}
    /\ restored' = CASE phase = "failed" -> restored
                     [] drained ->
                          [x \in DOMAIN written \cup DOMAIN restored |->
                              IF x \in DOMAIN written THEN written[x]
                              ELSE restored[x]]
                     [] OTHER -> EmptyMap
    /\ UNCHANGED <<storeVars, exiting, runs>>

\* ------------------------------------------------------- worker actions
\* self.onmessage, one message at a time, oldest first.  The SET_DONE,
\* DEL_DONE and SHUTDOWN_DONE replies go to the engine's thread, where no
\* onmessage handler is installed: they change nothing and are left out.
Receivable(action) ==
    /\ wlive
    /\ queue # <<>>
    /\ Head(queue).action = action

\* the message the handler is given
received == Head(queue)

workerFrame == <<meta, engineVars, ret, posted, closes, exiting, runs,
                 written, removed, restored>>

WorkerStartup ==
    /\ Receivable("STARTUP")
    /\ wdb' = "open"
    /\ queue' = Tail(queue)
    /\ UNCHANGED <<table, wlive, applied, workerFrame>>

WorkerSet ==
    /\ Receivable("SET")
    /\ wdb = "open"
    /\ table' = Upsert(table, received.key, received.value)
    /\ applied' = Append(applied, received)
    /\ queue' = Tail(queue)
    /\ UNCHANGED <<wdb, wlive, workerFrame>>

WorkerDel ==
    /\ Receivable("DEL")
    /\ wdb = "open"
    /\ table' = DeleteRow(table, received.key)
    /\ applied' = Append(applied, received)
    /\ queue' = Tail(queue)
    /\ UNCHANGED <<wdb, wlive, workerFrame>>

\* Variant: SHUTDOWN taken off the queue and nothing done
WorkerShutdown_ignored ==
    /\ Receivable("SHUTDOWN")
    /\ queue' = Tail(queue)
    /\ UNCHANGED <<table, wdb, wlive, applied, workerFrame>>

\* db.close(false); process.exit(): the thread ends, later messages stay unread
WorkerShutdown ==
    /\ Receivable("SHUTDOWN")
    /\ wdb' = "closed"
    /\ wlive' = FALSE
    /\ queue' = Tail(queue)
    /\ UNCHANGED <<table, applied, workerFrame>>

\* ------------------------------------------------------- specification
Next ==
    \/ \E secretKey \in SecretKeys \cup {NoSecret}, lockOk \in BOOLEAN :
           Construct(secretKey, lockOk)
    \/ \E k \in KeyNames, v \in Values : Set(k, v)
    \/ \E k \in KeyNames : Get(k)
    \/ \E k \in KeyNames : Del(k)
    \/ Close
    \/ ExitHook
    \/ ProcessEnd
    \/ WorkerStartup
    \/ WorkerSet
    \/ WorkerDel
    \/ WorkerShutdown

Spec == Init /\ [][Next]_vars

\* ------------------------------------------------ a file damaged at rest
\* new Database(dbPath) opens whatever the file holds.  Between two
\* processes a stored value of a secure file may have been damaged: its
\* bytes no longer open under any key.  One damaged value at a time; the
\* record of what the earlier run left no longer describes the file.
DamagedKey == "?"
Damaged(box) == [box EXCEPT !.key = DamagedKey]

Tamper ==
    /\ phase = "none"
    /\ runs < MaxRuns
    /\ \A j \in DOMAIN table : table[j].key # DamagedKey
    /\ \E k \in DOMAIN table :
          /\ table[k].key # ""
          /\ table' = [table EXCEPT ![k] = Damaged(table[k])]
    /\ restored' = EmptyMap
    /\ UNCHANGED <<meta, engineVars, workerVars, ret, posted, applied,
                   closes, exiting, runs, written, removed>>

NextTamper == Next \/ Tamper

SpecTamper == Init /\ [][NextTamper]_vars

\* ------------------------------------------------------ the HTTP routes
\* What each Elysia route answers for what the engine call returned or
\* threw: error(code), a body with the default status, or set.status alone.
Response(status, body) == [status |-> status, body |-> body]
error(code) == Response(code, Undefined)

\* .get('/:key'): db.get(key) ?? error(404), error(500) in the catch
routeGet(val) ==
    IF val.type = "error" THEN error(500)
    ELSE IF val \in {Null, Undefined} THEN error(404)
    ELSE Response(200, val)

\* .get('/:key/:value') and .post('/:key'): 204 if db.set(...) else 201
routeSet(val) ==
    IF val.type = "error" THEN error(500)
    ELSE IF ToBoolean(val) THEN Response(204, Undefined)
    ELSE Response(201, Undefined)

\* .delete('/:key'): 204 if db.del(key) else error(404)
routeDel(val) ==
    IF val.type = "error" THEN error(500)
    ELSE IF ToBoolean(val) THEN Response(204, Undefined)
    ELSE error(404)

\* --------------------------------------------- a statement that fails
\* db.query(...).run(...) throws (disk full, file locked by another
\* process): the handler ends at the throw, before its postMessage.  The
\* row is not written; the uncaught exception may or may not end the
\* worker thread.  Nothing on the engine's thread listens to the worker.
WorkerFail ==
    /\ wlive
    /\ queue # <<>>
    /\ Head(queue).action \in {"SET", "DEL"}
    /\ wdb = "open"
    /\ queue' = Tail(queue)
    /\ wlive' \in BOOLEAN
    /\ UNCHANGED <<table, wdb, applied, workerFrame>>

\* one process on a new file, with a worker whose statements may fail
NextFail == (Next /\ (phase = "none" => runs = 0)) \/ WorkerFail

SpecFail == Init /\ [][NextFail]_vars

\* ================================================================ claims
\* the engine is constructed and close() has not been called on it
Open == phase = "ready" /\ closes = 0 /\ ~exiting

\* the string under which the engine files the caller's key k
IndexKey(k) ==
    IF secure = "true" THEN crypto_secretbox_easy(Str(k), ZeroNonce, sk)
    ELSE Str(k)

\* k is in the Index: this.kv has it as a property of its own
InIndex(k) == IndexKey(k) \in DOMAIN kv

\* C1: read-your-writes.  On an open engine, in either mode, get(k) returns
\* the value of the last set(k, v), the empty string included, for as long
\* as no set or del of k follows; the worker's progress plays no part.
C1_ReadYourWrites ==
    Open => \A k \in DOMAIN written : get(Str(k)).val = Str(written[k])

\* C2: set(k, v) returns true exactly when k was in the Index before the
\* call and false exactly when it was not.
C2_SetReturnsExisted ==
    [][\A k \in KeyNames, v \in Values :
          (Open /\ Set(k, v)) => ret'.val = Bool(InIndex(k))]_vars

\* C3: del(k) of a key that is not in the Index returns false, leaves the
\* Index as it was and posts nothing to the worker.
C3_DelAbsent ==
    [][\A k \in KeyNames :
          (Open /\ ~InIndex(k) /\ Del(k)) =>
              (ret'.val = False /\ kv' = kv /\ posted' = posted)]_vars

\* C4: del(k) of a key that is in the Index returns true and removes it;
\* from then until the next set(k, .), get(k) returns null and del(k)
\* returns false.
C4_DelPresent ==
    /\ [][\A k \in KeyNames :
             (Open /\ InIndex(k) /\ Del(k)) =>
                 (ret'.val = True /\ IndexKey(k) \notin DOMAIN kv')]_vars
    /\ [](Open => \A k \in removed :
                     get(Str(k)).val = Null /\ del(Str(k)).val = False)

\* C5: restart durability.  What an engine set before close(), once its
\* worker has handled everything up to SHUTDOWN, is what get returns in an
\* engine constructed afterwards on the same file in the same mode and key.
C5_RestartDurability ==
    Open => \A k \in DOMAIN restored : get(Str(k)).val = Str(restored[k])

\* C6: mode mismatch.  An engine asked to run in a mode other than the one
\* the file records has failed with a configuration error, has no worker
\* and has posted nothing, STARTUP included.
C6_ModeMismatch ==
    (phase # "none" /\ secure \in {"true", "false"} /\ meta.secure # secure)
        => /\ phase = "failed"
           /\ err = "ConfigurationError"
           /\ ~worker /\ ~wlive
           /\ posted = <<>> /\ queue = <<>>

C6_Witness ==
    /\ err = "ConfigurationError"
    /\ secure = "false"
    /\ meta.secure = "true"
    /\ exiting

\* C7: wrong key.  A secure engine whose key is not the one the file's test
\* string was sealed with has failed with a wrong-key error, and its Index
\* is empty whatever rows the file holds.
C7_WrongKey ==
    (phase # "none" /\ secure = "true" /\ meta.secure = "true"
        /\ sk \in SecretKeys /\ meta.test.key # sk)
        => /\ phase = "failed"
           /\ err = "WrongKeyError"
           /\ kv = EmptyObject
           /\ ~worker
           /\ posted = <<>>

C7_Witness ==
    /\ err = "WrongKeyError"
    /\ sk \in SecretKeys
    /\ meta.test.key \in SecretKeys \ {sk}
    /\ DOMAIN table # {}
    /\ kv = EmptyObject

IsWrite(m) == m.action \in {"SET", "DEL"}
IsPrefix(a, b) == Len(a) <= Len(b) /\ SubSeq(b, 1, Len(a)) = a

\* C8: worker order.  What the worker has run against the file is a prefix
\* of the SET and DEL messages the engine posted, in posting order, and for
\* every key the file shows the effect of the latest write run for it.
C8_WorkerOrder ==
    /\ IsPrefix(applied, SelectSeq(posted, IsWrite))
    /\ \A i \in 1..Len(applied) :
          (\A j \in (i + 1)..Len(applied) : applied[j].key # applied[i].key)
              => IF applied[i].action = "SET"
                 THEN /\ applied[i].key \in DOMAIN table
                      /\ table[applied[i].key] = applied[i].value
                 ELSE applied[i].key \notin DOMAIN table

C8_Witness ==
    /\ Len(applied) >= 2
    /\ applied[1].key = applied[2].key
    /\ applied[1] # applied[2]
    /\ applied[2].action = "SET"
    /\ table[applied[2].key] = applied[2].value

\* C9: close() twice.  A close() on an engine that was closed before posts
\* nothing and changes nothing of the engine, the key buffer or the file.
C9_CloseIdempotent ==
    [][(closes >= 1 /\ closes' = closes + 1)
          => UNCHANGED <<posted, queue, kv, sk, prot, secure, worker, phase,
                         meta, table>>]_vars

\* C10: key protection.  A secure engine that close() has not torn down
\* holds its key buffer in NoAccess between calls, and an encrypt or a
\* decrypt started there ends there, whether decrypt returns or throws.
C10_NoAccess ==
    (phase # "none" /\ secure = "true" /\ closes = 0)
        => /\ prot = "NoAccess"
           /\ \A k \in KeyNames : encrypt(Str(k), sk, prot).prot = "NoAccess"
           /\ \A key \in SecretKeys, v \in Values :
                 decrypt(crypto_secretbox_easy(Str(v), ZeroNonce, key),
                         sk, prot).prot = "NoAccess"
           /\ \A v \in Values : decrypt(Str(v), sk, prot).prot = "NoAccess"

C10_Witness ==
    /\ secure = "true"
    /\ closes = 0
    /\ err = "WrongKeyError"
    /\ prot = "NoAccess"

\* a sealed string, and a caller's own text
Cipher(v) == v.type = "string" /\ v.key # ""
Plain(v)  == v.type = "string" /\ v.key = ""

\* C11: one handle at a time.  The constructor's own Database is closed
\* before a worker exists, so it is never open while the worker's is; and
\* once the engine has a worker, the file changes by the worker's SET and
\* DEL steps alone.
C11_OneHandle ==
    /\ []((worker \/ wlive \/ wdb # "unset") => handle = "closed")
    /\ [][(worker /\ <<meta, table>>' # <<meta, table>>)
            => (WorkerSet \/ WorkerDel)]_vars

C11_Witness ==
    /\ wdb = "open"
    /\ handle = "closed"
    /\ applied # <<>>

\* C12: what is stored.  In a secure engine every key and value in the
\* Index, in a posted SET or DEL and in the file's key_value rows is a
\* sealed string; in an insecure engine each is the caller's own string,
\* and a set posts the key and the value exactly as given.
C12_StoredForm ==
    /\ []((phase = "ready" /\ secure = "true") =>
            /\ \A k \in DOMAIN kv : Cipher(k) /\ Cipher(kv[k])
            /\ \A i \in 1..Len(posted) :
                  /\ posted[i].action \in {"SET", "DEL"} => Cipher(posted[i].key)
                  /\ posted[i].action = "SET" => Cipher(posted[i].value)
            /\ \A k \in DOMAIN table : Cipher(k) /\ Cipher(table[k]))
    /\ []((phase = "ready" /\ secure = "false") =>
            /\ \A k \in DOMAIN kv : Plain(k) /\ Plain(kv[k])
            /\ \A i \in 1..Len(posted) :
                  /\ posted[i].action \in {"SET", "DEL"} => Plain(posted[i].key)
                  /\ posted[i].action = "SET" => Plain(posted[i].value)
            /\ \A k \in DOMAIN table : Plain(k) /\ Plain(table[k]))
    /\ [][\A k \in KeyNames, v \in Values :
            (secure = "false" /\ Set(k, v)) =>
                posted' = Append(posted, Msg("SET", Str(k), Str(v)))]_vars

C12_Witness ==
    /\ phase = "ready"
    /\ secure = "true"
    /\ DOMAIN kv # {}
    /\ DOMAIN table # {}
    /\ \E i \in 1..Len(posted) : posted[i].action = "DEL"

\* C13: a failed decryption stays in its call.  When get(k) ends with the
\* decryption error, the Index and the worker's queue are as before, the key
\* buffer is in NoAccess, and the engine is as callable as it was.
C13_DecryptFailureConfined ==
    [][\A k \in KeyNames :
          (ret'.val.type = "error" /\ ret'.op = "get" /\ Get(k)) =>
              /\ kv' = kv
              /\ queue' = queue /\ posted' = posted
              /\ prot' = "NoAccess"
              /\ sk' = sk
              /\ Callable'
              /\ \A j \in KeyNames : get(Str(j))' = get(Str(j))]_vars

C13_Witness ==
    /\ phase = "ready"
    /\ ret.op = "get"
    /\ ret.val = Thrown("Unable to decrypt a value")
    /\ prot = "NoAccess"

\* C14: the key buffer cannot be secured.  The constructor has failed with
\* the vault released, that is the buffer writable, unlocked and zeroed,
\* with no Database open, no worker and nothing posted.
C14_FatalReleasesVault ==
    err = "FatalSecurityError" =>
        /\ phase = "failed"
        /\ sk = ZeroedKey
        /\ prot = "ReadWrite"
        /\ handle \in {"none", "closed"}
        /\ ~worker /\ ~wlive
        /\ posted = <<>>

\* the rows once the worker has run the messages of q, oldest first
RECURSIVE Drain(_, _)
Drain(rows, q) ==
    IF q = <<>> THEN rows
    ELSE LET m == Head(q)
         IN  Drain(CASE m.action = "SET" -> Upsert(rows, m.key, m.value)
                     [] m.action = "DEL" -> DeleteRow(rows, m.key)
                     [] OTHER            -> rows,
                   Tail(q))

\* C15: write-behind.  In every state of a constructed engine the Index is
\* what the file's key_value rows become when the messages still in the
\* worker's queue are run on them in order; so with nothing queued the rows
\* are the Index.
C15_WriteBehind ==
    phase = "ready" => kv = Drain(table, queue)


\* the SET and DEL messages of q that come before its first SHUTDOWN
RECURSIVE BeforeShutdown(_)
BeforeShutdown(q) ==
    IF q = <<>> \/ Head(q).action = "SHUTDOWN" THEN <<>>
    ELSE IF IsWrite(Head(q)) THEN <<Head(q)>> \o BeforeShutdown(Tail(q))
    ELSE BeforeShutdown(Tail(q))

\* C16: exactly once.  The worker runs the posted SET and DEL messages in
\* order, none of them twice, and none posted before SHUTDOWN is left out:
\* when the process ends, every one of them has been run against the file.
C16_ExactlyOnce ==
    /\ [](IsPrefix(applied, SelectSeq(posted, IsWrite)))
    /\ [][(phase = "ready" /\ phase' = "none")
            => applied = BeforeShutdown(posted)]_vars


\* C17: closed for good.  Once close() has posted SHUTDOWN, no call changes
\* the Index or posts a SET or DEL: SHUTDOWN is the last message the worker
\* is sent.
C17_ClosedForGood ==
    [][(phase = "ready" /\ closes >= 1 /\ phase' = "ready")
          => /\ kv' = kv
             /\ SelectSeq(posted', IsWrite) = SelectSeq(posted, IsWrite)]_vars


\* the worker has taken a SHUTDOWN off its queue
ShutdownHandled ==
    \E i \in 1..(Len(posted) - Len(queue)) : posted[i].action = "SHUTDOWN"

\* C18: after SHUTDOWN.  Once the worker has handled a SHUTDOWN its
\* Database is closed and the file's rows stay as they are, whatever is
\* still queued behind the SHUTDOWN or is posted later.
C18_AfterShutdown ==
    /\ [](ShutdownHandled => wdb = "closed")
    /\ [][ShutdownHandled =>
             (table' = table /\ Len(applied') <= Len(applied))]_vars

C18_Witness ==
    /\ ShutdownHandled
    /\ wdb = "closed"
    /\ queue # <<>>
    /\ IsWrite(Head(queue))

\* C19: STARTUP first.  A constructed engine has posted exactly one STARTUP
\* and posted it first, and the worker has opened its Database before it
\* takes any other message; an engine whose constructor threw has posted
\* nothing, also after close().
C19_StartupFirst ==
    /\ phase = "ready" =>
          /\ posted # <<>>
          /\ posted[1] = STARTUP
          /\ \A i \in 2..Len(posted) : posted[i].action # "STARTUP"
          /\ wdb = "unset" => (queue = posted /\ applied = <<>>)
    /\ phase = "failed" => (posted = <<>> /\ queue = <<>> /\ wdb = "unset")

C19_Witness ==
    /\ phase = "failed"
    /\ err = "WrongKeyError"
    /\ exiting
    /\ closes = 1
    /\ posted = <<>>

\* C20: the load.  When the constructor returns, the Index holds exactly
\* the file's key_value rows: every stored key with its stored value, and
\* no other key.
C20_LoadedIndex ==
    [][(phase = "none" /\ phase' = "ready") => kv' = table]_vars


\* a step of the worker, a failed statement included
WorkerStep ==
    WorkerStartup \/ WorkerSet \/ WorkerDel \/ WorkerShutdown \/ WorkerFail

\* C21: the worker is out of sight.  No step of the worker, a failed SET
\* or DEL included, changes the Index or what any set, get or del would
\* return and do to the engine; and a call the caller can make is never
\* held back by the state of the worker.
C21_WorkerUnseen ==
    /\ [][WorkerStep =>
             /\ kv' = kv
             /\ \A k \in KeyNames :
                   /\ get(Str(k))' = get(Str(k))
                   /\ del(Str(k))' = del(Str(k))
                   /\ \A v \in Values :
                         set(Str(k), Str(v))' = set(Str(k), Str(v))]_vars
    /\ [](Callable => \A k \in KeyNames : ENABLED Get(k))

C21_Witness ==
    /\ Callable
    /\ ~wlive
    /\ wdb = "open"
    /\ DOMAIN kv # {}
    /\ DOMAIN table = {}
    /\ ret.op = "get"
    /\ ret.val.type = "string"


\* C22: the vault at the end.  Once close() has run on an engine whose key
\* was secured, the key buffer is zeroed and, if the engine has a worker,
\* SHUTDOWN has been posted; and no process of such an engine ends without
\* close() having run: explicit close, SIGINT handler and exit hook alike,
\* after a failed construction too.
C22_VaultReleased ==
    /\ []((phase # "none" /\ secure = "true" /\ closes >= 1) =>
            /\ sk = ZeroedKey
            /\ worker => \E i \in 1..Len(posted) : posted[i] = SHUTDOWN)
    /\ [][(phase # "none" /\ secure = "true" /\ phase' = "none") =>
             (closes >= 1 /\ sk = ZeroedKey)]_vars

C22_Witness ==
    /\ phase = "failed"
    /\ err = "WrongKeyError"
    /\ exiting
    /\ sk = ZeroedKey
    /\ prot = "ReadWrite"

\* C23: fresh nonce.  A secure engine that seals the same text twice under
\* its key gets two different boxes.
C23_FreshNonce ==
    (phase = "ready" /\ secure = "true" /\ closes = 0) =>
        \A v \in Values :
            LET first  == encrypt(Str(v), sk, prot)
                second == encrypt(Str(v), sk, first.prot)
            IN  first.out # second.out

\* C24: the recorded mode.  Once the file records a mode, no construction,
\* returning or throwing, with or without a key, changes the record.
C24_SecureFlagOnce ==
    [][meta.secure # "none" => meta'.secure = meta.secure]_vars

C24_Witness ==
    /\ runs = 2
    /\ phase = "failed"
    /\ err = "ConfigurationError"
    /\ secure = "true"
    /\ meta.secure = "false"

\* C25: the constructor's own Database.  When the constructor has ended
\* after opening the file, returning or throwing a configuration or
\* wrong-key error, the Database it opened is closed.
C25_HandleClosed ==
    (phase \in {"ready", "failed"} /\ handle # "none") => handle = "closed"

\* C26: the HTTP answers.  GET answers 200 with the stored value for a key
\* in the Index and 404 otherwise; a set answers 201 for a key that was not
\* in the Index and 204 for one that was; DELETE answers 204 for a key that
\* was in the Index and 404 otherwise; an engine exception answers 500.
C26_HttpMapping ==
    [][\A k \in KeyNames :
          /\ (Open /\ Get(k)) =>
                routeGet(ret'.val) =
                    IF ret'.val.type = "error" THEN error(500)
                    ELSE IF ~InIndex(k) THEN error(404)
                    ELSE IF k \in DOMAIN written
                         THEN Response(200, Str(written[k]))
                    ELSE Response(200, ret'.val)
          /\ \A v \in Values :
                (Open /\ Set(k, v)) =>
                    routeSet(ret'.val) =
                        IF InIndex(k) THEN Response(204, Undefined)
                        ELSE Response(201, Undefined)
          /\ (Open /\ Del(k)) =>
                routeDel(ret'.val) =
                    IF InIndex(k) THEN Response(204, Undefined)
                    ELSE error(404)]_vars

====
